---- MODULE Spec2Model ----
(***************************************************************************)
(* Model of the byte-size codec of src/src/lib.rs: parse_size_unit, parse, *)
(* parse_to, format and format_to.                                         *)
(*                                                                         *)
(* usize values (64 bit) and the mantissas of f64 values do not fit TLC's  *)
(* 32-bit integers, so a natural number is a little-endian sequence of     *)
(* base-1000 groups without leading zero groups (the groups of the         *)
(* source's literals: 1_000_000 is <<0, 0, 1>>), and an f64 is a record    *)
(* [m, e] standing for m * 2^e with 2^52 <= m < 2^53 (or m = 0).  Every    *)
(* f64 operation is the exact result rounded to nearest, ties to even, as  *)
(* IEEE 754 prescribes.                                                    *)
(*                                                                         *)
(* The arithmetic is written as functions, and a Rust `let x = e` as       *)
(* x \in {e}: TLC computes the argument of a function and the element of a *)
(* set once, where it may compute a LET definition at each of its uses.    *)
(* Carries are looked ahead instead of rippled, which keeps the evaluation *)
(* shallow.                                                                *)
(***************************************************************************)
EXTENDS Integers, Sequences, FiniteSets, Bags, TLC

----------------------------------------------------------------------------
(* Natural numbers of any size *)

Radix == 10 * 10 * 10

Num == Seq(Nat)

Zero == << >>
One == <<1>>

\* the element of a one-element set
The(S) == CHOOSE x \in S : TRUE

\* a without its leading (most significant) zero groups
Trim[a \in Num] ==
  SubSeq(a, 1, CHOOSE n \in 0..Len(a) :
                 /\ n = 0 \/ a[n] # 0
                 /\ \A j \in (n + 1)..Len(a) : a[j] = 0)

\* the number the source writes g1_g2_..._gn, most significant group first
Lit(g) == Trim[[i \in 1..Len(g) |-> g[Len(g) + 1 - i]]]

\* 0 <= n < 10^9
Small(n) == Trim[<<n % Radix, (n \div Radix) % Radix, n \div (Radix * Radix)>>]

Limb(a, i) == IF i >= 1 /\ i <= Len(a) THEN a[i] ELSE 0

Add[a \in Num, b \in Num] ==
  LET n    == IF Len(a) > Len(b) THEN Len(a) ELSE Len(b)
      s(i) == Limb(a, i) + Limb(b, i)
      c(i) == IF \E j \in 1..(i - 1) :
                   s(j) >= Radix /\ \A k \in (j + 1)..(i - 1) : s(k) >= Radix - 1
              THEN 1 ELSE 0
  IN  Trim[[i \in 1..(n + 1) |-> (s(i) + c(i)) % Radix]]

\* a - b for a >= b
Sub[a \in Num, b \in Num] ==
  LET d(i) == a[i] - Limb(b, i)
      w(i) == IF \E j \in 1..(i - 1) :
                   d(j) < 0 /\ \A k \in (j + 1)..(i - 1) : d(k) <= 0
              THEN 1 ELSE 0
  IN  Trim[[i \in 1..Len(a) |-> (d(i) - w(i) + Radix) % Radix]]

\* column j of the long multiplication of a and b: the sum of a[i] * b[j+1-i]
Column[a \in Num, b \in Num, j \in Nat] ==
  BagCardinality([i \in {k \in 1..Len(a) : a[k] * Limb(b, j + 1 - k) > 0} |->
                    a[i] * Limb(b, j + 1 - i)])

\* the number whose group j is cols[j] < 10^9: the three groups of every
\* column, each at its place, added up
Carry[cols \in Num] ==
  Add[Add[Trim[[j \in 1..Len(cols) |-> cols[j] % Radix]],
          Trim[[j \in 1..(Len(cols) + 1) |->
                  IF j = 1 THEN 0 ELSE (cols[j - 1] \div Radix) % Radix]]],
      Trim[[j \in 1..(Len(cols) + 2) |->
              IF j <= 2 THEN 0 ELSE cols[j - 2] \div (Radix * Radix)]]]

Mul[a \in Num, b \in Num] ==
  IF a = Zero \/ b = Zero THEN Zero
  ELSE Carry[[j \in 1..(Len(a) + Len(b)) |-> Column[a, b, j]]]

Double(a) == Add[a, a]

\* a * d for 0 <= d < 10^6
MulSmall[a \in Num, d \in Nat] == Carry[[j \in 1..Len(a) |-> a[j] * d]]

\* -1, 0, 1 as a < b, a = b, a > b
Cmp[a \in Num, b \in Num] ==
  IF Len(a) < Len(b) THEN -1
  ELSE IF Len(a) > Len(b) THEN 1
  ELSE IF a = b THEN 0
  ELSE LET i == CHOOSE k \in 1..Len(a) :
                  a[k] # b[k] /\ \A j \in (k + 1)..Len(a) : a[j] = b[j]
       IN  IF a[i] < b[i] THEN -1 ELSE 1

Less(a, b) == Cmp[a, b] < 0
LessEq(a, b) == Cmp[a, b] <= 0

\* the groups of a from group i up, as an integer (at most three groups)
Top(a, i) ==
  Limb(a, i) + Radix * Limb(a, i + 1) + Radix * Radix * Limb(a, i + 2)

\* floor(r / q) for r < q * Radix: the leading groups bound it, r decides
QuotDigit[r \in Num, q \in Num] ==
  IF Less(r, q) THEN 0
  ELSE IF Len(q) <= 2 THEN Top(r, 1) \div Top(q, 1)
  ELSE LET qt == Top(q, Len(q) - 1)
           rt == Top(r, Len(q) - 1)
           lo == rt \div (qt + 1)
           hi == IF (rt + 1) \div qt >= Radix THEN Radix - 1 ELSE (rt + 1) \div qt
       IN  CHOOSE d \in lo..hi :
             /\ LessEq(MulSmall[q, d], r)
             /\ d = hi \/ Less(r, MulSmall[q, d + 1])

\* a quotient and a remainder
QuotRem == [quot : Num, rem : Num]

\* one step of the schoolbook division by q: the running remainder r takes
\* the quotient group d, which goes in front of the groups found so far
DivPut[q \in Num, r \in Num, d \in Nat, acc \in Num] ==
  [quot |-> <<d>> \o acc, rem |-> Sub[r, MulSmall[q, d]]]

DivStep[q \in Num, r \in Num, acc \in Num] == DivPut[q, r, QuotDigit[r, q], acc]

\* the division from group i of p down, st the quotient and remainder so far
DivModFrom[p \in Num, q \in Num, i \in Nat, st \in QuotRem] ==
  IF i = 0 THEN st
  ELSE DivModFrom[p, q, i - 1, DivStep[q, Trim[<<p[i]>> \o st.rem], st.quot]]

DivTrim[st \in QuotRem] == [quot |-> Trim[st.quot], rem |-> st.rem]

\* quotient and remainder of p by q > 0
DivMod[p \in Num, q \in Num] ==
  IF Less(p, q) THEN [quot |-> Zero, rem |-> p]
  ELSE DivTrim[DivModFrom[p, q, Len(p) - Len(q) + 1,
                          [quot |-> << >>,
                           rem |-> Trim[SubSeq(p, Len(p) - Len(q) + 2, Len(p))]]]]

RECURSIVE Pow2Rec(_)
Pow2Rec(k) == IF k < 20 THEN Small(2 ^ k) ELSE Mul[Pow2Rec(k - 20), Small(2 ^ 20)]

\* the powers of two the model's values need, computed once
Pow2Table == [k \in 0..255 |-> Pow2Rec(k)]

Pow2(k) == Pow2Table[k]

Pow10(k) == [i \in 1..(k \div 3) |-> 0] \o <<10 ^ (k % 3)>>

IsOdd(a) == Limb(a, 1) % 2 = 1

\* the number of binary digits of a: 2^(BitLen - 1) <= a < 2^BitLen
BitLen[a \in Num] ==
  IF a = Zero THEN 0
  ELSE LET bt  == CHOOSE k \in 1..10 : 2 ^ (k - 1) <= a[Len(a)] /\ a[Len(a)] < 2 ^ k
           est == bt + ((Len(a) - 1) * 996578) \div 100000
       IN  CHOOSE k \in {j \in (est - 1)..(est + 1) : j >= 1} :
             LessEq(Pow2(k - 1), a) /\ Less(a, Pow2(k))

\* d.quot, or the next integer when the remainder d.rem of the division by q
\* is above q / 2, or is q / 2 and d.quot is odd
HalfEven[d \in QuotRem, q \in Num] ==
  LET c == Cmp[Double(d.rem), q]
  IN  IF c > 0 \/ (c = 0 /\ IsOdd(d.quot)) THEN Add[d.quot, One] ELSE d.quot

----------------------------------------------------------------------------
(* f64: [m, e] is m * 2^e, with 2^52 <= m < 2^53 unless m = 0.  The inputs  *)
(* of the model keep every value inside the normal range of f64, so neither *)
(* subnormals nor infinities are represented.                               *)

F64 == [m : Num, e : Int]

Two52 == Pow2(52)
Two53 == Pow2(53)
Two64 == Pow2(64)

F64Zero == [m |-> Zero, e |-> 0]

\* a mantissa that rounding carried up to 2^53 is 2^52 one exponent higher
Normal[m \in Num, e \in Int] ==
  IF m = Two53 THEN [m |-> Two52, e |-> e + 1] ELSE [m |-> m, e |-> e]

\* p / q rounded to an integer, times 2^e, for 2^52 <= p / q < 2^53
RoundQuot[p \in Num, q \in Num, e \in Int] == Normal[HalfEven[DivMod[p, q], q], e]

\* p / q * 2^e0 with p / q scaled by 2^s into [2^52, 2^53)
RoundScaled[p \in Num, q \in Num, e0 \in Int, s \in Int] ==
  IF s >= 0 THEN RoundQuot[Mul[p, Pow2(s)], q, e0 - s]
  ELSE RoundQuot[p, Mul[q, Pow2(-s)], e0 - s]

\* the s with 2^52 <= p / q * 2^s < 2^53, given 2^(k-1) < p / q < 2^(k+1)
Scale[p \in Num, q \in Num, k \in Int] ==
  IF (IF k >= 0 THEN LessEq(Mul[q, Pow2(k)], p) ELSE LessEq(q, Mul[p, Pow2(-k)]))
  THEN 52 - k ELSE 53 - k

\* the f64 nearest to p / q * 2^e0, ties to the even mantissa
RoundF64[p \in Num, q \in Num, e0 \in Int] ==
  IF p = Zero THEN F64Zero
  ELSE RoundScaled[p, q, e0, Scale[p, q, BitLen[p] - BitLen[q]]]

\* `n as f64`
F64FromUsize(n) == RoundF64[n, One, 0]

\* `a * b` on f64
F64Mul[a \in F64, b \in F64] == RoundF64[Mul[a.m, b.m], One, a.e + b.e]

\* `a / b` on f64, b # 0
F64Div[a \in F64, b \in F64] == RoundF64[a.m, b.m, a.e - b.e]

\* the integer part of a finite f64 (a natural number of any size)
F64Floor[a \in F64] ==
  IF a.m = Zero THEN Zero
  ELSE IF a.e >= 0 THEN Mul[a.m, Pow2(a.e)]
  ELSE IF a.e < -53 THEN Zero
  ELSE DivMod[a.m, Pow2(-a.e)].quot

\* the decimal digits ds (most significant first) as a number
FromDigits[ds \in Seq(0..9)] ==
  LET L    == Len(ds)
      D(k) == IF k >= 1 THEN ds[k] ELSE 0
  IN  Trim[[i \in 1..((L + 2) \div 3) |->
              D(L - 3 * (i - 1)) + 10 * D(L - 3 * (i - 1) - 1)
                + 100 * D(L - 3 * (i - 1) - 2)]]

\* the decimal digits of a, most significant first; <<0>> for zero
ToDigits[a \in Num] ==
  IF a = Zero THEN <<0>>
  ELSE LET n       == Len(a)
           full(k) == (a[n - ((k - 1) \div 3)] \div (10 ^ (2 - ((k - 1) % 3)))) % 10
           f       == CHOOSE k \in 1..3 : full(k) # 0 /\ \A j \in 1..(k - 1) : full(j) = 0
       IN  [k \in 1..(3 * n + 1 - f) |-> full(k + f - 1)]

----------------------------------------------------------------------------
(* Characters and strings.  A string is a sequence of characters; an ASCII  *)
(* character is the one-letter string, any other character is named by its  *)
(* code point.  The two non-ASCII characters of the model are KELVIN SIGN   *)
(* (a letter whose simple case folding is "k") and ARABIC-INDIC DIGIT ONE   *)
(* (a decimal digit, general category Nd).                                  *)

KelvinSign == "U+212A"
ArabicOne == "U+0661"

DigitChars == <<"0", "1", "2", "3", "4", "5", "6", "7", "8", "9">>
AsciiDigits == {DigitChars[i] : i \in 1..10}
DigitValue(c) == (CHOOSE i \in 1..10 : DigitChars[i] = c) - 1

LowerChars == <<"b", "g", "i", "k", "m", "p", "t", "x">>
UpperChars == <<"B", "G", "I", "K", "M", "P", "T", "X">>
Lowers == {LowerChars[i] : i \in 1..Len(LowerChars)}
Uppers == {UpperChars[i] : i \in 1..Len(UpperChars)}

\* `\d` of the regex crate: a Unicode decimal digit
IsDigit(c) == c \in AsciiDigits \/ c = ArabicOne

\* simple case folding, which `(?i)` matches under
Fold(c) ==
  IF c \in Uppers THEN LowerChars[CHOOSE i \in 1..Len(UpperChars) : UpperChars[i] = c]
  ELSE IF c = KelvinSign THEN "k"
  ELSE c

\* char::to_uppercase: KELVIN SIGN is an uppercase letter already
ToUpperChar(c) ==
  IF c \in Lowers THEN UpperChars[CHOOSE i \in 1..Len(LowerChars) : LowerChars[i] = c]
  ELSE c

to_uppercase(s) == [i \in 1..Len(s) |-> ToUpperChar(s[i])]

----------------------------------------------------------------------------
(* lib.rs 11-37: the multipliers and the units *)

B == Lit(<<1>>)
KB == Lit(<<1, 000>>)
MB == Lit(<<1, 000, 000>>)
GB == Lit(<<1, 000, 000, 000>>)
TB == Lit(<<1, 000, 000, 000, 000>>)
PB == Lit(<<1, 000, 000, 000, 000, 000>>)

KIB == Lit(<<1, 024>>)
MIB == Lit(<<1, 048, 576>>)
GIB == Lit(<<1, 073, 741, 824>>)
TIB == Lit(<<1, 099, 511, 627, 776>>)
PIB == Lit(<<1, 125, 899, 906, 842, 624>>)

Unit == {"B", "KB", "MB", "GB", "TB", "PB", "KIB", "MIB", "GIB", "TIB", "PIB"}

\* the constant each `match unit` arm of parse, parse_to and format_to uses
Multiplier(u) ==
  CASE u = "B" -> B
    [] u = "KB" -> KB
    [] u = "MB" -> MB
    [] u = "GB" -> GB
    [] u = "TB" -> TB
    [] u = "PB" -> PB
    [] u = "KIB" -> KIB
    [] u = "MIB" -> MIB
    [] u = "GIB" -> GIB
    [] u = "TIB" -> TIB
    [] u = "PIB" -> PIB

----------------------------------------------------------------------------
(* lib.rs 39-69: parse_size_unit *)

\* the alternatives of (k|m|g|t|p|ki|mi|gi|ti|pi)?b
UnitPattern ==
  {<<"b">>, <<"k", "b">>, <<"m", "b">>, <<"g", "b">>, <<"t", "b">>, <<"p", "b">>,
   <<"k", "i", "b">>, <<"m", "i", "b">>, <<"g", "i", "b">>, <<"t", "i", "b">>,
   <<"p", "i", "b">>}

\* the ways ^(?i)(\d+(\.\d+)?) *((k|m|g|t|p|ki|mi|gi|ti|pi)?b)?$ matches s:
\* \d+ is s[1..a], group 1 is s[1..b], the spaces end at c, group 3 is the rest
Matches[s \in Seq(STRING)] ==
  LET n      == Len(s)
      As     == {a \in 1..n : \A i \in 1..a : IsDigit(s[i])}
      Bs(a)  == {a} \cup {b \in (a + 2)..n :
                           s[a + 1] = "." /\ \A i \in (a + 2)..b : IsDigit(s[i])}
      Cs(b)  == {c \in b..n : \A i \in (b + 1)..c : s[i] = " "}
      end(c) == \/ c = n
                \/ [i \in 1..(n - c) |-> Fold(s[c + i])] \in UnitPattern
  IN  UNION {UNION {{<<a, b, c>> : c \in {x \in Cs(b) : end(x)}} : b \in Bs(a)} :
               a \in As}

None == [some |-> FALSE]
Some(v) == [some |-> TRUE, val |-> v]

\* groups 1 and 3 of the match m of s
Groups(s, m) ==
  [size |-> SubSeq(s, 1, m[2]),
   unit |-> IF m[3] = Len(s) THEN None ELSE Some(SubSeq(s, m[3] + 1, Len(s)))]

\* re.captures(&str): None, or the groups of the match
captures(s) ==
  The({IF ms = {} THEN None ELSE The({Some(Groups(s, m)) : m \in {The(ms)}}) :
         ms \in {Matches[s]}})

\* the value of the digits of size, its '.' at place dot left out, over
\* 10^(digits after the '.')
Decimal[size \in Seq(STRING), dot \in Nat] ==
  RoundF64[FromDigits[[i \in 1..(Len(size) - (IF dot <= Len(size) THEN 1 ELSE 0)) |->
                         DigitValue(size[IF i < dot THEN i ELSE i + 1])]],
           Pow10(IF dot <= Len(size) THEN Len(size) - dot ELSE 0),
           0]

\* size.parse::<f64>(): Err unless the text is ASCII digits with at most one
\* '.'; the nearest f64 otherwise
ParseF64[size \in Seq(STRING)] ==
  IF \E i \in 1..Len(size) : size[i] \notin AsciiDigits \cup {"."}
  THEN [tag |-> "Err"]
  ELSE [tag |-> "Ok",
        val |-> Decimal[size, IF \E i \in 1..Len(size) : size[i] = "."
                              THEN CHOOSE i \in 1..Len(size) : size[i] = "."
                              ELSE Len(size) + 1]]

\* the `match &*unit` of lines 52-65, with its fallback arm
UnitOf(u) ==
  CASE u = <<"B">> -> "B"
    [] u = <<"K", "B">> -> "KB"
    [] u = <<"M", "B">> -> "MB"
    [] u = <<"G", "B">> -> "GB"
    [] u = <<"T", "B">> -> "TB"
    [] u = <<"P", "B">> -> "PB"
    [] u = <<"K", "I", "B">> -> "KIB"
    [] u = <<"M", "I", "B">> -> "MIB"
    [] u = <<"G", "I", "B">> -> "GIB"
    [] u = <<"T", "I", "B">> -> "TIB"
    [] u = <<"P", "I", "B">> -> "PIB"
    [] OTHER -> "B"

ParseError == "Parse Error. Invalid byte format."

Err(msg) == [tag |-> "Err", msg |-> msg]
Panic == [tag |-> "panic"]

\* the Some(res) arm: unit is group 3 in upper case or "B", and the number
\* conversion is unwrapped
SizeUnit(res) ==
  The({IF num.tag = "Err" THEN Panic
       ELSE [tag |-> "Ok", size |-> num.val, unit |-> UnitOf(unit)] :
         num \in {ParseF64[res.size]},
         unit \in {IF res.unit.some THEN to_uppercase(res.unit.val) ELSE <<"B">>}})

parse_size_unit(s) ==
  The({IF res.some THEN SizeUnit(res.val) ELSE Err(ParseError) :
         res \in {captures(s)}})

----------------------------------------------------------------------------
(* lib.rs 89-149: parse and parse_to *)

\* `X as f64` for the constant X of each unit
UnitF64 == [u \in Unit |-> F64FromUsize(Multiplier(u))]

MaxUsize == Sub[Two64, One]

Ok(v) == [tag |-> "Ok", val |-> v]

\* a cast that rounds to the nearest integer instead of truncating
AsUsizeNearest(f) ==
  {IF Less(n, Two64) THEN n ELSE sat :
     n \in {DivMod[Add[F64Floor[[m |-> f.m, e |-> f.e + 1]], One], Small(2)].quot},
     sat \in {MaxUsize, Zero}}

\* `bytes as usize`: the integer part of the f64.  A value of 2^64 or more
\* has no usize: the cast saturates (Rust 1.45 on) and is undefined before
\* (the x86-64 code of that time yields 0), so both outcomes are possible.
AsUsize(f) ==
  {IF Less(n, Two64) THEN n ELSE sat : n \in {F64Floor[f]}, sat \in {MaxUsize, Zero}}

\* every decimal unit scaled as its binary namesake
ToBytesBinary(value, u) ==
  F64Mul[value,
         UnitF64[CASE u = "KB" -> "KIB" [] u = "MB" -> "MIB" [] u = "GB" -> "GIB"
                   [] u = "TB" -> "TIB" [] u = "PB" -> "PIB" [] OTHER -> u]]

\* the `match unit` of parse: value * X as f64
ToBytes(value, u) == F64Mul[value, UnitF64[u]]

\* the outcomes of parse(str)
parse(s) ==
  UNION {IF parsed.tag = "Ok"
         THEN {Ok(n) : n \in UNION {AsUsize(b) : b \in {ToBytes(parsed.size, parsed.unit)}}}
         ELSE {parsed} :
           parsed \in {parse_size_unit(s)}}

\* an integer division, converted afterwards
FromBytesTruncated(bytes, u) == F64FromUsize(DivMod[bytes, Multiplier(u)].quot)

\* the `match result_unit` of parse_to: bytes as f64 / X as f64
FromBytes(bytes, u) ==
  IF u = "B" THEN F64FromUsize(bytes)
  ELSE F64Div[F64FromUsize(bytes), UnitF64[u]]

\* the outcomes of parse_to(str, result_unit)
parse_to(s, result_unit) ==
  {IF r.tag = "Ok" THEN Ok(FromBytes(r.val, result_unit)) ELSE r : r \in parse(s)}

----------------------------------------------------------------------------
(* lib.rs 163-232: format and format_to *)

\* the f64 `result` of format_to: bytes in the given unit
InUnit(bytes, u) ==
  IF u = "B" THEN F64FromUsize(bytes)
  ELSE F64Div[F64FromUsize(bytes), UnitF64[u]]

\* x * 100 with its fraction cut off
HundredthsTruncated(x) ==
  The({IF v.m = Zero THEN Zero
       ELSE IF v.e >= 0 THEN MulSmall[Mul[v.m, Pow2(v.e)], 100]
       ELSE DivMod[MulSmall[v.m, 100], Pow2(-v.e)].quot :
         v \in {x}})

\* x * 100 rounded to an integer, ties to even: what "{:.2}" prints of x
Hundredths(x) ==
  The({IF v.m = Zero THEN Zero
       ELSE IF v.e >= 0 THEN MulSmall[Mul[v.m, Pow2(v.e)], 100]
       ELSE HalfEven[DivMod[MulSmall[v.m, 100], Pow2(-v.e)], Pow2(-v.e)] :
         v \in {x}})

\* the two digits of f < 100
TwoDigits(f) == <<DigitChars[(f \div 10) + 1], DigitChars[(f % 10) + 1]>>

\* the decimal text of a
DigitText[a \in Num] == [i \in 1..Len(ToDigits[a]) |-> DigitChars[ToDigits[a][i] + 1]]

\* the text of h hundredths: the integer part, '.', two digits
FixedText[h \in Num] ==
  The({DigitText[d.quot] \o <<".">> \o TwoDigits(Limb(d.rem, 1)) :
         d \in {DivMod[h, Small(100)]}})

\* format!("{:.2}", x)
Fixed2(x) == FixedText[Hundredths(x)]

\* a trim that takes '0' and '.' alike, as trim_end_matches(&['0', '.']) would
trim_end_zeros_and_dots(s, c) ==
  The({SubSeq(t, 1, CHOOSE n \in 0..Len(t) :
                      /\ n = 0 \/ t[n] \notin {"0", "."}
                      /\ \A j \in (n + 1)..Len(t) : t[j] \in {"0", "."}) :
         t \in {s}})

\* str::trim_end_matches(c)
trim_end_matches(s, c) ==
  The({SubSeq(t, 1, CHOOSE n \in 0..Len(t) :
                      /\ n = 0 \/ t[n] # c
                      /\ \A j \in (n + 1)..Len(t) : t[j] = c) :
         t \in {s}})

\* the suffix each arm of the second `match unit` of format_to pushes
Suffix(u) ==
  CASE u = "B" -> <<" ", "B">>
    [] u = "KB" -> <<" ", "K", "B">>
    [] u = "MB" -> <<" ", "M", "B">>
    [] u = "GB" -> <<" ", "G", "B">>
    [] u = "TB" -> <<" ", "T", "B">>
    [] u = "PB" -> <<" ", "P", "B">>
    [] u = "KIB" -> <<" ", "K", "i", "B">>
    [] u = "MIB" -> <<" ", "M", "i", "B">>
    [] u = "GIB" -> <<" ", "G", "i", "B">>
    [] u = "TIB" -> <<" ", "T", "i", "B">>
    [] u = "PIB" -> <<" ", "P", "i", "B">>

format_to(bytes, u) ==
  The({trim_end_matches(trim_end_matches(Fixed2(result), "0"), ".") \o Suffix(u) :
         result \in {InUnit(bytes, u)}})

\* the selection with every `<` written `<=`
format_inclusive(bytes) ==
  IF LessEq(bytes, KB) THEN format_to(bytes, "B")
  ELSE IF LessEq(bytes, MB) THEN format_to(bytes, "KB")
  ELSE IF LessEq(bytes, GB) THEN format_to(bytes, "MB")
  ELSE IF LessEq(bytes, TB) THEN format_to(bytes, "GB")
  ELSE IF LessEq(bytes, PB) THEN format_to(bytes, "TB")
  ELSE format_to(bytes, "PB")

format(bytes) ==
  IF Less(bytes, KB) THEN format_to(bytes, "B")
  ELSE IF Less(bytes, MB) THEN format_to(bytes, "KB")
  ELSE IF Less(bytes, GB) THEN format_to(bytes, "MB")
  ELSE IF Less(bytes, TB) THEN format_to(bytes, "GB")
  ELSE IF Less(bytes, PB) THEN format_to(bytes, "TB")
  ELSE format_to(bytes, "PB")

----------------------------------------------------------------------------
(* The calls.  The library keeps no state: a state of the model is one call, *)
(* its arguments (str, bytes, unit) and, once it has run, what it returned.  *)

VARIABLES pc, str, bytes, unit, result

vars == <<pc, str, bytes, unit, result>>

NoResult == [tag |-> "none"]

(* Bounds of the inputs *)
MaxSpaces == 2
MaxLen == 3
MaxCount == 20
MaxBelow == 6
MaxCents == 125

Spaces(k) == [i \in 1..k |-> " "]

\* pat in every letter case, KELVIN SIGN for "k" included
CaseVariants(pat) ==
  {v \in [1..Len(pat) -> Lowers \cup Uppers \cup {KelvinSign}] :
     \A i \in 1..Len(pat) :
       \/ v[i] = pat[i]
       \/ v[i] = ToUpperChar(pat[i])
       \/ pat[i] = "k" /\ v[i] = KelvinSign}

(* Inputs of parse_size_unit and parse when the grammar is what is looked at *)

\* the texts put where the grammar has its number: three numbers, and texts
\* that are no number
NumberTexts ==
  {<<"0">>, <<"1", "2", ".", "3", "4">>, <<"1", ".", "2", "3">>,
   << >>, <<"1", ".">>, <<".", "5">>, <<"1", ".", "2", ".", "3">>, <<"-", "1">>,
   <<"a", "b", "c">>, <<" ", "1">>, <<ArabicOne>>, <<"1", ".", ArabicOne>>}

\* the texts put where the grammar has its unit token: none, every unit in
\* every letter case, and texts that are no unit
TokenTexts ==
  {<< >>} \cup UNION {CaseVariants(pat) : pat \in UnitPattern}
    \cup {<<"X", "B">>, <<"x">>, <<"k">>, <<"i", "b">>, <<"b", "b">>,
          <<"k", "b", "x">>, <<"K", "B", " ">>, <<"k", " ", "b">>, <<"b", "1">>}

RawAlphabet == {"1", ".", " ", "k", "B", "-", KelvinSign, ArabicOne}

RawStrings == UNION {[1..n -> RawAlphabet] : n \in 0..MaxLen}

GrammarInputs ==
  {n \o Spaces(k) \o t : n \in NumberTexts, k \in 0..MaxSpaces, t \in TokenTexts}
    \cup RawStrings

(* Inputs of parse and parse_to when the value is what is looked at *)

ParseNumbers ==
  {<<"0">>, <<"1", "2", "3">>, <<"1", "2", ".", "3", "4">>, <<"1", ".", "2", "3">>,
   <<"2", ".", "0", "1">>, <<"1", ".", "0", "0", "1">>, <<"0", ".", "5">>,
   <<"1", "8", "4", "4", "7">>}

\* no token, and each unit as format_to writes it
ParseTokens == {<< >>} \cup {Tail(Suffix(u)) : u \in Unit}

ParseInputs ==
  {n \o Spaces(k) \o t : n \in ParseNumbers, k \in 0..MaxSpaces, t \in ParseTokens}
    \cup {<< >>, <<" ", " ", " ">>, <<"a", "b", "c">>,
          <<"1", "2", ".", "3", "4", "X", "B">>, <<"1", " ">>,
          <<"1", "2", ".", "3", "4", "k", "b">>,
          <<"1", KelvinSign, "b">>, <<ArabicOne>>, <<"1", ".", ArabicOne, "K", "B">>}

(* Byte counts given to format and format_to *)

TestCounts == {100, 123, 500, 999} \cup {1000 + c : c \in {5, 230, 245}}

BinaryCounts == {1, 128, 384, 512} \cup {1000 + c : c \in {275}}

Counts ==
  {Small(n) : n \in 0..MaxCount}
    \cup {Mul[Small(c), Pow10(3 * k)] : c \in TestCounts, k \in 0..5}
    \cup {Mul[Small(c), Pow2(10 * k)] : c \in BinaryCounts, k \in 0..5}
    \cup {Sub[Pow10(3 * k), Small(j)] : k \in 1..6, j \in 0..MaxBelow}
    \cup {MaxUsize}

(* Magnitudes of the round trip: k hundredths written with the fewest digits *)

MagnitudeText(k) ==
  DigitText[Small(k \div 100)]
    \o (IF k % 100 = 0 THEN << >>
        ELSE IF k % 10 = 0 THEN <<".", DigitChars[((k % 100) \div 10) + 1]>>
        ELSE <<".", DigitChars[((k % 100) \div 10) + 1], DigitChars[(k % 10) + 1]>>)

\* 18447 PB is more than a usize holds; the others lie around 2^47 and 2^53
BigMagnitudes ==
  {<<"1", "8", "4", "4", "7">>,
   <<"1", "4", "0", "7", "3", "7", "4", "8", "8", "3", "5", "5", "3", "2", "7",
     ".", "9", "9">>,
   <<"1", "4", "0", "7", "3", "7", "4", "8", "8", "3", "5", "5", "3", "2", "8",
     ".", "9", "9">>,
   <<"9", "0", "0", "7", "1", "9", "9", "2", "5", "4", "7", "4", "0", ".", "9", "9">>}

Magnitudes == {MagnitudeText(k) : k \in 0..MaxCents} \cup BigMagnitudes

----------------------------------------------------------------------------
(* parse_size_unit and parse over the strings around the grammar *)

InitGrammar ==
  /\ pc = "start"
  /\ str \in GrammarInputs
  /\ bytes = Zero
  /\ unit = "B"
  /\ result = NoResult

CallParseSizeUnit ==
  /\ pc = "start"
  /\ pc' = "parse_size_unit"
  /\ result' = parse_size_unit(str)
  /\ UNCHANGED <<str, bytes, unit>>

CallParse ==
  /\ pc = "start"
  /\ pc' = "parse"
  /\ \E r \in parse(str) : result' = r
  /\ UNCHANGED <<str, bytes, unit>>

NextGrammar == CallParseSizeUnit \/ CallParse

SpecGrammar == InitGrammar /\ [][NextGrammar]_vars

(* parse_size_unit, parse and parse_to over sizes in every unit *)

InitParse ==
  /\ pc = "start"
  /\ str \in ParseInputs
  /\ bytes = Zero
  /\ unit = "B"
  /\ result = NoResult

CallParseTo ==
  /\ pc = "start"
  /\ pc' = "parse_to"
  /\ \E u \in Unit :
       /\ unit' = u
       /\ \E r \in parse_to(str, u) : result' = r
  /\ UNCHANGED <<str, bytes>>

NextParse == CallParseSizeUnit \/ CallParse \/ CallParseTo

SpecParse == InitParse /\ [][NextParse]_vars

(* format and format_to *)

InitFormat ==
  /\ pc = "start"
  /\ str = << >>
  /\ bytes \in Counts
  /\ unit = "B"
  /\ result = NoResult

CallFormat ==
  /\ pc = "start"
  /\ pc' = "format"
  /\ result' = format(bytes)
  /\ UNCHANGED <<str, bytes, unit>>

CallFormatTo ==
  /\ pc = "start"
  /\ pc' = "format_to"
  /\ \E u \in Unit :
       /\ unit' = u
       /\ result' = format_to(bytes, u)
  /\ UNCHANGED <<str, bytes>>

NextFormat == CallFormat \/ CallFormatTo

SpecFormat == InitFormat /\ [][NextFormat]_vars

(* The round trip, as tests::test_parse_to and the examples make it: a      *)
(* magnitude written before a unit's suffix is parsed and the byte count is *)
(* formatted in that unit, or parse_to's value is printed with "{:.2}".     *)

InitRoundTrip ==
  /\ pc = "start"
  /\ \E m \in Magnitudes, u \in Unit :
       /\ str = m \o Tail(Suffix(u))
       /\ unit = u
  /\ bytes = Zero
  /\ result = NoResult

RoundTripParse ==
  /\ pc = "start"
  /\ pc' = "parsed"
  /\ \E r \in parse(str) :
       /\ result' = r
       /\ bytes' = IF r.tag = "Ok" THEN r.val ELSE bytes
  /\ UNCHANGED <<str, unit>>

RoundTripFormat ==
  /\ pc = "parsed"
  /\ result.tag = "Ok"
  /\ pc' = "formatted"
  /\ result' = format_to(bytes, unit)
  /\ UNCHANGED <<str, bytes, unit>>

RoundTripParseTo ==
  /\ pc = "start"
  /\ pc' = "printed"
  /\ \E r \in parse_to(str, unit) :
       result' = IF r.tag = "Ok" THEN Fixed2(r.val) ELSE r
  /\ UNCHANGED <<str, bytes, unit>>

NextRoundTrip == RoundTripParse \/ RoundTripFormat \/ RoundTripParseTo

SpecRoundTrip == InitRoundTrip /\ [][NextRoundTrip]_vars

----------------------------------------------------------------------------
(* The words of the claims: the grammar, the exact value of a decimal text, *)
(* the multipliers and suffixes as the specification lists them, and what   *)
(* "nearest" means for an f64 and for a hundredth.                          *)

LowerText(t) ==
  [i \in 1..Len(t) |->
     IF t[i] \in Uppers
     THEN LowerChars[CHOOSE k \in 1..Len(UpperChars) : UpperChars[k] = t[i]]
     ELSE t[i]]

\* unit_token := scale? 'b', by the unit it names
SpecToken(u) ==
  CASE u = "B" -> <<"b">>
    [] u = "KB" -> <<"k", "b">>
    [] u = "MB" -> <<"m", "b">>
    [] u = "GB" -> <<"g", "b">>
    [] u = "TB" -> <<"t", "b">>
    [] u = "PB" -> <<"p", "b">>
    [] u = "KIB" -> <<"k", "i", "b">>
    [] u = "MIB" -> <<"m", "i", "b">>
    [] u = "GIB" -> <<"g", "i", "b">>
    [] u = "TIB" -> <<"t", "i", "b">>
    [] u = "PIB" -> <<"p", "i", "b">>

\* B=1, KB=10^3, ..., PB=10^15, KIB=2^10, ..., PIB=2^50
SpecMultiplier(u) ==
  CASE u = "B" -> One
    [] u = "KB" -> Pow10(3)
    [] u = "MB" -> Pow10(6)
    [] u = "GB" -> Pow10(9)
    [] u = "TB" -> Pow10(12)
    [] u = "PB" -> Pow10(15)
    [] u = "KIB" -> Pow2(10)
    [] u = "MIB" -> Pow2(20)
    [] u = "GIB" -> Pow2(30)
    [] u = "TIB" -> Pow2(40)
    [] u = "PIB" -> Pow2(50)

\* the canonical suffix: the binary units with a lower-case i
SpecSuffix(u) ==
  CASE u = "B" -> <<"B">>
    [] u = "KB" -> <<"K", "B">>
    [] u = "MB" -> <<"M", "B">>
    [] u = "GB" -> <<"G", "B">>
    [] u = "TB" -> <<"T", "B">>
    [] u = "PB" -> <<"P", "B">>
    [] u = "KIB" -> <<"K", "i", "B">>
    [] u = "MIB" -> <<"M", "i", "B">>
    [] u = "GIB" -> <<"G", "i", "B">>
    [] u = "TIB" -> <<"T", "i", "B">>
    [] u = "PIB" -> <<"P", "i", "B">>

NumberChars == AsciiDigits \cup {"."}

\* number := digit+ ('.' digit+)?
IsNumber(t) ==
  /\ t # << >>
  /\ \A i \in 1..Len(t) : t[i] \in NumberChars
  /\ t[1] # "." /\ t[Len(t)] # "."
  /\ Cardinality({i \in 1..Len(t) : t[i] = "."}) <= 1

\* s is read as digits and dots, then spaces, then the token
NumberEnd(s) ==
  CHOOSE n \in 0..Len(s) :
    /\ \A i \in 1..n : s[i] \in NumberChars
    /\ n = Len(s) \/ s[n + 1] \notin NumberChars

TokenStart(s) ==
  CHOOSE n \in NumberEnd(s)..Len(s) :
    /\ \A i \in (NumberEnd(s) + 1)..n : s[i] = " "
    /\ n = Len(s) \/ s[n + 1] # " "

NumberOf(s) == SubSeq(s, 1, NumberEnd(s))
TokenOf(s) == SubSeq(s, TokenStart(s) + 1, Len(s))

TokenUnits(t) == {u \in Unit : SpecToken(u) = LowerText(t)}

\* size := number (whitespace* unit_token)?
InGrammar(s) ==
  /\ IsNumber(NumberOf(s))
  /\ \/ NumberEnd(s) = Len(s)
     \/ TokenUnits(TokenOf(s)) # {}

\* the unit the token of s names, B when there is none
GrammarUnit(s) == IF TokenOf(s) = << >> THEN "B" ELSE The(TokenUnits(TokenOf(s)))

\* the decimal text t is Numerator(t) / Denominator(t)
DotAt(t) ==
  IF \E i \in 1..Len(t) : t[i] = "." THEN CHOOSE i \in 1..Len(t) : t[i] = "."
  ELSE Len(t) + 1

FracLen(t) == IF DotAt(t) <= Len(t) THEN Len(t) - DotAt(t) ELSE 0

Numerator(t) ==
  FromDigits[[i \in 1..(Len(t) - (IF DotAt(t) <= Len(t) THEN 1 ELSE 0)) |->
                DigitValue(t[IF i < DotAt(t) THEN i ELSE i + 1])]]

Denominator(t) == Pow10(FracLen(t))

WholePart(t) == SubSeq(t, 1, DotAt(t) - 1)

\* t with two digits after the '.'
TwoPlaces(t) ==
  IF FracLen(t) = 0 THEN WholePart(t) \o <<".", "0", "0">>
  ELSE IF FracLen(t) = 1 THEN t \o <<"0">>
  ELSE t

Distance(a, b) == IF Less(a, b) THEN Sub[b, a] ELSE Sub[a, b]

\* x is an f64 nearest to p / q * 2^e0: normal, and no further from it than
\* half the gap to its neighbour on that side, a tie going to the even mantissa
IsNearest(x, p, q, e0) ==
  IF p = Zero THEN x = F64Zero
  ELSE /\ LessEq(Two52, x.m) /\ Less(x.m, Two53)
       /\ LET d     == x.e - e0
              \* x, p / q * 2^e0 and one unit of x's last place, on one scale
              xs    == IF d >= 0 THEN Mul[Mul[x.m, q], Pow2(d)] ELSE Mul[x.m, q]
              ps    == IF d >= 0 THEN p ELSE Mul[p, Pow2(-d)]
              ulp   == IF d >= 0 THEN Mul[q, Pow2(d)] ELSE q
              below == x.m = Two52 /\ Less(ps, xs)
              c     == IF below THEN Cmp[MulSmall[Distance(xs, ps), 4], ulp]
                       ELSE Cmp[Double(Distance(xs, ps)), ulp]
          IN  c < 0 \/ (c = 0 /\ ~IsOdd(x.m))

\* n is the integer part of the f64 x
IsFloor(n, x) ==
  IF x.e >= 0 THEN n = Mul[x.m, Pow2(x.e)]
  ELSE /\ LessEq(Mul[n, Pow2(-x.e)], x.m)
       /\ Less(x.m, Mul[Add[n, One], Pow2(-x.e)])

BelowTwo64(x) == x.e < 0 \/ Less(Mul[x.m, Pow2(x.e)], Two64)

\* h hundredths is nearest to the f64 x, a tie going to the even h
IsNearestHundredth(h, x) ==
  IF x.e >= 0 THEN h = MulSmall[Mul[x.m, Pow2(x.e)], 100]
  ELSE LET c == Cmp[Double(Distance(Mul[h, Pow2(-x.e)], MulSmall[x.m, 100])),
                    Pow2(-x.e)]
       IN  c < 0 \/ (c = 0 /\ ~IsOdd(h))

\* the number a formatted text shows before its space, in hundredths
PrintedNumber(s) == SubSeq(s, 1, (CHOOSE i \in 1..Len(s) : s[i] = " ") - 1)

PrintedHundredths(s) ==
  Mul[Numerator(PrintedNumber(s)), Pow10(2 - FracLen(PrintedNumber(s)))]

\* the unit format's contract selects for a count
SelectedUnit(count) ==
  IF Less(count, Pow10(3)) THEN "B"
  ELSE IF Less(count, Pow10(6)) THEN "KB"
  ELSE IF Less(count, Pow10(9)) THEN "MB"
  ELSE IF Less(count, Pow10(12)) THEN "GB"
  ELSE IF Less(count, Pow10(15)) THEN "TB"
  ELSE "PB"

\* t is digits, '.', two digits
IsFixed2(t) ==
  /\ Len(t) >= 4
  /\ t[Len(t) - 2] = "."
  /\ \A i \in 1..Len(t) : i # Len(t) - 2 => t[i] \in AsciiDigits

\* t = digits.d1d2 without its trailing fractional zeros, and without the
\* '.' when no fractional digit is left
Trimmed(t) ==
  IF t[Len(t) - 1] = "0" /\ t[Len(t)] = "0" THEN SubSeq(t, 1, Len(t) - 3)
  ELSE IF t[Len(t)] = "0" THEN SubSeq(t, 1, Len(t) - 1)
  ELSE t

----------------------------------------------------------------------------
(* The claims *)

\* C1: an input string outside the grammar number (whitespace* unit_token)?
\* gets the parse error, and no value, from parse_size_unit and from parse.
C1_OutsideGrammarIsError ==
  (pc \in {"parse_size_unit", "parse"} /\ ~InGrammar(str))
    => result = Err(ParseError)

\* C2: for an input of the grammar parse_size_unit returns Ok with the f64
\* of the number's decimal value and the unit its token names in any letter
\* case and after any number of spaces (B without a token); and an accepted
\* input whose token is not b or B is never given unit B.
C2_GrammarInputParsed ==
  pc = "parse_size_unit" =>
    /\ InGrammar(str) =>
         /\ result.tag = "Ok"
         /\ IsNearest(result.size, Numerator(NumberOf(str)), Denominator(NumberOf(str)), 0)
         /\ result.unit = GrammarUnit(str)
    /\ (result.tag = "Ok" /\ TokenOf(str) \notin {<< >>, <<"b">>, <<"B">>})
         => result.unit # "B"

\* C9: parse_size_unit, parse and parse_to return Ok or the parse error for
\* every input string; none of them aborts.
C9_NeverAborts ==
  pc \in {"parse_size_unit", "parse", "parse_to"} => result.tag \in {"Ok", "Err"}

\* C3 as stated: parse of an accepted input with magnitude m and unit U
\* returns the integer part of the exact product m * multiplier(U).
C3_ParseTruncatesExactProduct ==
  (pc = "parse" /\ InGrammar(str)) =>
    /\ result.tag = "Ok"
    /\ LET exact == Mul[Numerator(NumberOf(str)), SpecMultiplier(GrammarUnit(str))]
           den   == Denominator(NumberOf(str))
       IN  /\ LessEq(Mul[result.val, den], exact)
           /\ Less(exact, Mul[Add[result.val, One], den])

\* C3, amended: parse of an accepted input with magnitude m and unit U
\* returns the integer part of p, the f64 nearest to v * multiplier(U), where
\* v is the f64 nearest to m, whenever p < 2^64; that integer is within 1 of
\* the integer part of m * multiplier(U) when this product is below 2^52.
C3_ParseTruncatesDoubleProduct ==
  (pc = "parse" /\ InGrammar(str)) =>
    LET num   == Numerator(NumberOf(str))
        den   == Denominator(NumberOf(str))
        mult  == SpecMultiplier(GrammarUnit(str))
        exact == Mul[num, mult]
        v     == ParseF64[NumberOf(str)].val
        p     == F64Mul[v, F64FromUsize(mult)]
    IN  /\ IsNearest(v, num, den, 0)
        /\ IsNearest(p, Mul[v.m, mult], One, v.e)
        /\ BelowTwo64(p) =>
             /\ result.tag = "Ok"
             /\ IsFloor(result.val, p)
             /\ Less(exact, Mul[Two52, den]) =>
                  /\ result.val = Zero \/ LessEq(Mul[Sub[result.val, One], den], exact)
                  /\ Less(exact, Mul[Add[result.val, Small(2)], den])

\* parse("1.23 KiB") = 1259, cut from 1259.52
C3_Witness ==
  /\ pc = "parse"
  /\ str = <<"1", ".", "2", "3", " ", "K", "i", "B">>
  /\ result = Ok(Lit(<<1, 259>>))

\* C8: parse_to(input, U) is the outcome of parse(input) when that is no
\* byte count, and otherwise Ok of the byte count divided by multiplier(U) in
\* f64 arithmetic: the f64 nearest to the quotient of the count as f64 and
\* the multiplier, with nothing cut off.
C8_ParseToDividesParse ==
  pc = "parse_to" =>
    \E r \in parse(str) :
      IF r.tag = "Ok"
      THEN /\ result.tag = "Ok"
           /\ LET f == F64FromUsize(r.val)
              IN  /\ IsNearest(f, r.val, One, 0)
                  /\ IsNearest(result.val, f.m, SpecMultiplier(unit), f.e)
      ELSE result = r

\* parse_to("123B", KB) = 0.123
C8_Witness ==
  /\ pc = "parse_to"
  /\ str = <<"1", "2", "3", "B">>
  /\ unit = "KB"
  /\ result.tag = "Ok"
  /\ result.val # F64Zero
  /\ IsNearest(result.val, Small(123), Small(1000), 0)

\* C4: format(count) is format_to(count, U) for U = B below 1000, KB below
\* 10^6, MB below 10^9, GB below 10^12, TB below 10^15 and PB from there on,
\* and its text has no binary suffix.
C4_FormatSelectsDecimalUnit ==
  pc = "format" =>
    /\ result = format_to(bytes, SelectedUnit(bytes))
    /\ \A i \in 1..Len(result) : result[i] # "i"

\* format(1000) = "1 KB"
C4_Witness ==
  /\ pc = "format"
  /\ bytes = Lit(<<1, 000>>)
  /\ result = <<"1", " ", "K", "B">>

\* C5: format_to(count, unit) is the number, one space and the canonical
\* suffix, the number being count / multiplier(unit) printed with two
\* fractional digits and then without its trailing fractional zeros, and
\* without the '.' when none is left; the integer part keeps every digit.
C5_FormatToShape ==
  pc = "format_to" =>
    LET t == Fixed2(InUnit(bytes, unit))
    IN  /\ IsFixed2(t)
        /\ result = Trimmed(t) \o <<" ">> \o SpecSuffix(unit)
        /\ SubSeq(result, 1, Len(t) - 3) = SubSeq(t, 1, Len(t) - 3)
        /\ result[Len(t) - 2] \in {" ", "."}

\* format_to(100, B) = "100 B"
C5_Witness ==
  /\ pc = "format_to"
  /\ bytes = Small(100)
  /\ unit = "B"
  /\ result = <<"1", "0", "0", " ", "B">>

\* C6 as stated: the number format_to prints is count / multiplier(unit)
\* rounded to the nearest hundredth, a quotient halfway between two
\* hundredths going to the upper one.
C6_RoundsExactQuotientHalfUp ==
  pc = "format_to" =>
    LET h  == PrintedHundredths(result)
        m2 == Double(SpecMultiplier(unit))
        t  == Add[MulSmall[bytes, 200], SpecMultiplier(unit)]
    IN  LessEq(Mul[h, m2], t) /\ Less(t, Mul[Add[h, One], m2])

\* C6, amended: the number format_to prints is the hundredth nearest to the
\* f64 quotient x of count as f64 and multiplier(unit), a tie (x exactly
\* halfway, as 0.125) going to the even hundredth; x is the f64 nearest to
\* the quotient, so the rounding is applied before the trimming.
C6_RoundsDoubleQuotient ==
  pc = "format_to" =>
    LET f == F64FromUsize(bytes)
        x == InUnit(bytes, unit)
    IN  /\ IsNearest(f, bytes, One, 0)
        /\ IsNearest(x, f.m, SpecMultiplier(unit), f.e)
        /\ IsNearestHundredth(PrintedHundredths(result), x)

\* format_to(1245, KB) = "1.25 KB"
C6_Witness ==
  /\ pc = "format_to"
  /\ bytes = Lit(<<1, 245>>)
  /\ unit = "KB"
  /\ result = <<"1", ".", "2", "5", " ", "K", "B">>

\* C10: for 1000 <= count < 10^18 the number format(count) prints is at
\* least 1 and below 1000.
C10_PrintedBelowThousand ==
  (pc = "format" /\ LessEq(Pow10(3), bytes) /\ Less(bytes, Pow10(18))) =>
    /\ LessEq(Small(100), PrintedHundredths(result))
    /\ Less(PrintedHundredths(result), Small(100000))

\* the round trip of str, m being its magnitude as the claim expects it back:
\* format_to of the parsed count shows m before the suffix of str, and
\* parse_to's value printed with two fractional digits is m
RoundTrips(m) ==
  /\ pc = "formatted" => result = m \o <<" ">> \o TokenOf(str)
  /\ pc = "printed" => result = TwoPlaces(m)

\* the magnitude of str, without its fraction when the unit is B
Magnitude == IF unit = "B" THEN WholePart(NumberOf(str)) ELSE NumberOf(str)

\* C7 as stated: the round trip holds for every magnitude m with at most two
\* fractional digits and every unit.
C7_RoundTripEveryMagnitude == RoundTrips(Magnitude)

\* C7, amended: the round trip holds when m * multiplier(U) is below 2^53,
\* and for U = B when m is below 2^47.
C7_RoundTripBelowTwo53 ==
  LET num == Numerator(NumberOf(str))
      den == Denominator(NumberOf(str))
  IN  (/\ Less(Mul[num, SpecMultiplier(unit)], Mul[Two53, den])
       /\ unit = "B" => Less(num, Mul[Pow2(47), den]))
        => RoundTrips(Magnitude)

\* "1.23KiB" parses to 1259 bytes, which format_to shows as "1.23 KiB"
C7_Witness ==
  /\ pc = "formatted"
  /\ str = <<"1", ".", "2", "3", "K", "i", "B">>
  /\ bytes = Lit(<<1, 259>>)
  /\ result = <<"1", ".", "2", "3", " ", "K", "i", "B">>
====
